---------------------------- MODULE Spec2Model ----------------------------
(***************************************************************************)
(* A model of the two control cores of the repository:                     *)
(*   - src/1_foundations/app.py: Me.chat, the bounded tool-calling loop,   *)
(*     with Me.handle_tool_call, the dispatch by name through globals();   *)
(*   - src/2_openai/deep_research/research_manager.py: ResearchManager.run,*)
(*     the staged pipeline, with perform_searches, the concurrent fan-out. *)
(* The remote calls (chat completion, Runner.run) are the environment: a   *)
(* call is outstanding until an action delivers its response or its error. *)
(***************************************************************************)
EXTENDS Integers, Sequences, FiniteSets, TLC

VARIABLES
    pc,            \* position of Me.chat: idle, awaiting, done, aborted, raised
    history,       \* the caller's history list
    messages,      \* the local list `messages` of Me.chat
    calls,         \* chat completion calls issued in this turn
    received,      \* responses received from the chat completion calls
    toolRequests,  \* responses received whose finish_reason was "tool_calls"
    result,        \* the value Me.chat returned
    error,         \* the exception that left Me.chat
    culprit,       \* the invocation whose dispatch raised
    finalContent,  \* choice.message.content of the final answer received
    executed,      \* ids of the invocations whose callable ran to its return
    collaborator,  \* the notification service in this turn
    notified,      \* ids of the invocations whose notification was posted
    requested,     \* invocations carried by the responses received
    dispatched,    \* ids of the invocations handle_tool_call has taken up
    lastToolCalls, \* tool_message.tool_calls of the last tool request
    stub,          \* the tool request the scripted model usually makes
    deviated,      \* the scripted model has made its one other request
    rpc,           \* position of ResearchManager.run
    events,        \* the values run has yielded, in order
    planned,       \* the number of items of the planner's final output
    searches,      \* search_plan.searches: the number of items of the plan
    tasks,         \* the tasks of perform_searches, one per item
    started,       \* the next task the event loop starts
    doneq,         \* the tasks that have finished, in completion order
    results,       \* the list `results` of perform_searches
    num_completed, \* the counter of perform_searches
    remoteOk,      \* the items whose Runner.run(search_agent) returned
    report,        \* the ReportData of write_report
    failedStage    \* the stage whose exception left run

chatVars == <<pc, history, messages, calls, received, toolRequests, result,
              error, culprit, finalContent, executed, collaborator, notified,
              requested, dispatched, lastToolCalls, stub, deviated>>

researchVars == <<rpc, events, planned, searches, tasks, started, doneq, results,
                  num_completed, remoteOk, report, failedStage>>

vars == <<chatVars, researchVars>>

(***************************************************************************)
(* Bounds of the model.                                                    *)
(***************************************************************************)
\* the most invocations one model response carries
MaxInv == 2

(***************************************************************************)
(* Program constants.                                                      *)
(***************************************************************************)
\* for _ in range(12)
MaxIterations == 12

Apology == "I'm sorry, I'm unable to complete that request right now. Please try again."

(***************************************************************************)
(* Python values that cross the tool boundary.                             *)
(***************************************************************************)
PyNone == [t |-> "none", items |-> << >>]

PyDict(items) == [t |-> "dict", items |-> items]

\* return {"recorded": "ok"}
RecordedOk == PyDict(<< <<"recorded", "ok">> >>)

\* the fallback `else {}` of handle_tool_call
EmptyDict == PyDict(<< >>)

\* json.dumps(resp) on the values a dispatch produces
JsonDumps(v) ==
    IF v.t = "none" THEN "null"
    ELSE IF v.items = << >> THEN "{}"
    ELSE "{\"recorded\": \"ok\"}"

\* json.loads(tool_call.function.arguments): the keys of the object, or the
\* JSONDecodeError of a text that is no JSON
JsonLoads(text) ==
    IF text.wellFormed
    THEN [error |-> "none", keys |-> text.keys]
    ELSE [error |-> "JSONDecodeError", keys |-> {}]

(***************************************************************************)
(* The module namespace that globals().get(tool_name) looks names up in.   *)
(***************************************************************************)
\* the callables of the module a model can name, with the parameters of each
\* (required: without default; optional: with default) and its return value
Signatures ==
    [record_user_details |->
        [required |-> {"email"}, optional |-> {"name", "notes"}, returns |-> RecordedOk],
     record_unknown_question |->
        [required |-> {"question"}, optional |-> {}, returns |-> RecordedOk],
     push |->
        [required |-> {"text"}, optional |-> {}, returns |-> PyNone]]

\* the tools offered to the model
OPENAI_TOOLS == {"record_user_details", "record_unknown_question"}

\* callable(globals().get(tool_name))
IsCallable(tool_name) == tool_name \in DOMAIN Signatures

\* tool(**arguments): Python binds the keywords to the parameters and raises
\* TypeError for a missing required one or an unexpected one
\* a binding that checks the names of the keys and not that the required ones
\* are there
Binds_AllOptional(sig, keys) == keys \subseteq (sig.required \cup sig.optional)

Binds(sig, keys) == sig.required \subseteq keys /\ keys \subseteq (sig.required \cup sig.optional)

\* the states of the notification service: credentials set and the request
\* answered; PUSHOVER_TOKEN or PUSHOVER_USER missing; requests.post raising a
\* RequestException
Collaborators == {"available", "no_credentials", "request_fails"}

\* a push whose request is not guarded by try/except
push_Unguarded(text, service) ==
    IF service = "no_credentials" THEN [error |-> "none", posted |-> FALSE]
    ELSE IF service = "request_fails"
         THEN [error |-> "RequestException", posted |-> FALSE]
         ELSE [error |-> "none", posted |-> TRUE]

\* push: return without credentials; post, and pass on a RequestException
push(text, service) ==
    IF service = "no_credentials" THEN [error |-> "none", posted |-> FALSE]
    ELSE IF service = "request_fails"
         THEN [error |-> "none", posted |-> FALSE]
         ELSE [error |-> "none", posted |-> TRUE]

\* the call without the callable(tool) guard: calling None raises TypeError
CallTool_Unguarded(tool_name, keys, service) ==
    IF IsCallable(tool_name) /\ Binds(Signatures[tool_name], keys)
    THEN [error |-> "none", resp |-> Signatures[tool_name].returns, ran |-> TRUE,
          posted |-> push(tool_name, service).posted]
    ELSE [error |-> "TypeError", resp |-> PyNone, ran |-> FALSE, posted |-> FALSE]

\* resp = tool(**arguments) if callable(tool) else {}; each callable of
\* Signatures pushes one notification and returns its value
CallTool(tool_name, keys, service) ==
    IF ~IsCallable(tool_name)
    THEN [error |-> "none", resp |-> EmptyDict, ran |-> FALSE, posted |-> FALSE]
    ELSE IF ~Binds(Signatures[tool_name], keys)
    THEN [error |-> "TypeError", resp |-> PyNone, ran |-> FALSE, posted |-> FALSE]
    ELSE LET sent == push(tool_name, service)
         IN  IF sent.error # "none"
             THEN [error |-> sent.error, resp |-> PyNone, ran |-> FALSE,
                   posted |-> FALSE]
             ELSE [error |-> "none", resp |-> Signatures[tool_name].returns,
                   ran |-> TRUE, posted |-> sent.posted]

(***************************************************************************)
(* Messages of the conversation.                                           *)
(***************************************************************************)
NoId == <<0, 0>>

Msg(role, content) ==
    [role |-> role, content |-> content, tool_calls |-> << >>, tool_call_id |-> NoId]

\* a tool-result that names the first invocation of the response, whichever
\* invocation it answers
ToolResult_FirstId(tool_call, resp) ==
    [role |-> "tool", content |-> JsonDumps(resp), tool_calls |-> << >>,
     tool_call_id |-> <<tool_call.id[1], 1>>]

\* {"role": "tool", "content": json.dumps(resp), "tool_call_id": tool_call.id}
ToolResult(tool_call, resp) ==
    [role |-> "tool", content |-> JsonDumps(resp), tool_calls |-> << >>,
     tool_call_id |-> tool_call.id]

\* {"role": "assistant", "content": ..., "tool_calls": [tc.model_dump() ...]}
AssistantMessage(tool_message) ==
    [role |-> "assistant", content |-> tool_message.content,
     tool_calls |-> tool_message.tool_calls, tool_call_id |-> NoId]

(***************************************************************************)
(* Me.handle_tool_call: one pass over tool_calls, in order; an exception   *)
(* of json.loads or of the call leaves the loop with `results` lost.       *)
(***************************************************************************)
NoCall == [id |-> NoId, name |-> "", arguments |-> [wellFormed |-> TRUE, keys |-> {}]]

\* what one pass has gathered: the tool-results, and the ids of the
\* invocations taken up, of those whose callable returned, and of those whose
\* notification was posted
NoneHandled == [results |-> << >>, seen |-> << >>, ran |-> << >>, posted |-> << >>]

RECURSIVE HandleFrom(_, _, _, _)
HandleFrom(tool_calls, j, service, acc) ==
    IF j > Len(tool_calls)
    THEN [error |-> "none", results |-> acc.results, seen |-> acc.seen,
          ran |-> acc.ran, posted |-> acc.posted, culprit |-> NoCall]
    ELSE LET tool_call == tool_calls[j]
             arguments == JsonLoads(tool_call.arguments)
             out       == CallTool(tool_call.name, arguments.keys, service)
             seen      == Append(acc.seen, tool_call.id)
         IN  IF arguments.error # "none"
             THEN [error |-> arguments.error, results |-> << >>, seen |-> seen,
                   ran |-> acc.ran, posted |-> acc.posted, culprit |-> tool_call]
             ELSE IF out.error # "none"
             THEN [error |-> out.error, results |-> << >>, seen |-> seen,
                   ran |-> acc.ran, posted |-> acc.posted, culprit |-> tool_call]
             ELSE HandleFrom(tool_calls, j + 1, service,
                    [results |-> Append(acc.results, ToolResult(tool_call, out.resp)),
                     seen    |-> seen,
                     ran     |-> IF out.ran THEN Append(acc.ran, tool_call.id)
                                 ELSE acc.ran,
                     posted  |-> IF out.posted THEN Append(acc.posted, tool_call.id)
                                 ELSE acc.posted])

handle_tool_call(tool_calls, service) == HandleFrom(tool_calls, 1, service, NoneHandled)

(***************************************************************************)
(* The scripted model: what a chat completion call can answer.             *)
(***************************************************************************)
JsonText(keys) == [wellFormed |-> TRUE, keys |-> keys]

NotJson == [wellFormed |-> FALSE, keys |-> {}]

\* the invocations a response is made of: (name, arguments text)
InvChoices ==
    { [name |-> "record_user_details", arguments |-> JsonText({"email", "name", "notes"})],
      [name |-> "record_user_details", arguments |-> JsonText({"name"})],
      [name |-> "record_unknown_question", arguments |-> JsonText({"question"})],
      [name |-> "record_unknown_question", arguments |-> JsonText({})],
      [name |-> "record_unknown_question", arguments |-> JsonText({"question", "source"})],
      [name |-> "record_unknown_question", arguments |-> NotJson],
      [name |-> "no_such_tool", arguments |-> JsonText({})] }

\* the lists of invocations of one response
ToolRequests == UNION { [1..n -> InvChoices] : n \in 1..MaxInv }

\* the requests of one invocation
SingleRequests == { <<inv>> : inv \in InvChoices }

\* choice.message.content of a final answer: a text, the empty text or None
FinalContents == {"X", "", "None"}

\* the histories a caller passes: earlier turns are texts only, since
\* Me.chat returns a string
Histories ==
    { << >>, << Msg("user", "hi"), Msg("assistant", "hello") >> }

\* the identifiers the model gives the invocations of its n-th response
WithIds(request, n) ==
    [j \in 1..Len(request) |->
        [id |-> <<n, j>>, name |-> request[j].name, arguments |-> request[j].arguments]]

(***************************************************************************)
(* Me.chat                                                                 *)
(***************************************************************************)
\* a conversation that is the caller's list itself, with the system prompt
\* and the user's message put into it: every append reaches the caller
CallerList_Shared(passed, conversation) == conversation

\* the caller's list once the turn's conversation holds `conversation`:
\* [system] + history + [user] builds a new list, and the appends and the
\* extends of the turn go to that list
CallerList(passed, conversation) == passed

Terminal == {"done", "aborted", "raised"}

\* a return that loses the text of the answer
OrEmpty_Dropped(content) == ""

\* choice.message.content or ""
OrEmpty(content) == IF content = "None" THEN "" ELSE content

ChatInit ==
    /\ pc = "idle"
    /\ history = << >>
    /\ messages = << >>
    /\ calls = 0
    /\ received = 0
    /\ toolRequests = 0
    /\ result = "None"
    /\ error = "none"
    /\ culprit = NoCall
    /\ finalContent = "None"
    /\ executed = << >>
    /\ collaborator = "available"
    /\ notified = << >>
    /\ requested = 0
    /\ dispatched = << >>
    /\ lastToolCalls = << >>
    /\ stub = << >>
    /\ deviated = FALSE

\* messages = [system] + history + [user]; first pass of the loop up to the
\* chat completion call
ChatStart ==
    /\ pc = "idle"
    /\ \E h \in Histories, s \in ToolRequests, c \in Collaborators :
          /\ messages' = <<Msg("system", "prompt")>> \o h \o <<Msg("user", "message")>>
          /\ history' = CallerList(h, messages')
          /\ stub' = s
          /\ collaborator' = c
    /\ calls' = 1
    /\ pc' = "awaiting"
    /\ UNCHANGED <<received, toolRequests, result, error, culprit, finalContent,
                   executed, notified, requested, dispatched, lastToolCalls,
                   deviated>>
    /\ UNCHANGED researchVars

\* the chat completion call raises
ModelFails ==
    /\ pc = "awaiting"
    /\ pc' = "raised"
    /\ error' = "APIError"
    /\ UNCHANGED <<history, messages, calls, received, toolRequests, result,
                   culprit, finalContent, executed, collaborator, notified,
                   requested, dispatched, lastToolCalls, stub, deviated>>
    /\ UNCHANGED researchVars

\* finish_reason is not "tool_calls": return choice.message.content or ""
ModelAnswers ==
    /\ pc = "awaiting"
    /\ \E content \in FinalContents :
          /\ finalContent' = content
          /\ result' = OrEmpty(content)
    /\ received' = received + 1
    /\ pc' = "done"
    /\ UNCHANGED <<history, messages, calls, toolRequests, error, culprit,
                   executed, collaborator, notified, requested, dispatched,
                   lastToolCalls, stub, deviated>>
    /\ UNCHANGED researchVars

\* a pass that tests the cap before it dispatches: the 12th response's tools
\* are not run
ProcessToolCalls_CapFirst(request) ==
    LET tool_message == [content |-> "", tool_calls |-> WithIds(request, calls)]
        handled      == IF calls < MaxIterations
                        THEN handle_tool_call(tool_message.tool_calls, collaborator)
                        ELSE [error |-> "none", results |-> << >>, seen |-> << >>,
                              ran |-> << >>, posted |-> << >>, culprit |-> NoCall]
    IN  /\ received' = received + 1
        /\ toolRequests' = toolRequests + 1
        /\ lastToolCalls' = tool_message.tool_calls
        /\ requested' = requested + Len(tool_message.tool_calls)
        /\ dispatched' = dispatched \o handled.seen
        /\ executed' = executed \o handled.ran
        /\ notified' = notified \o handled.posted
        /\ culprit' = handled.culprit
        /\ finalContent' = finalContent
        /\ IF handled.error # "none"
           THEN /\ pc' = "raised"
                /\ error' = handled.error
                /\ UNCHANGED <<messages, calls, result>>
           ELSE /\ error' = error
                /\ IF calls < MaxIterations
                   THEN /\ messages' = Append(messages, AssistantMessage(tool_message))
                                          \o handled.results
                        /\ calls' = calls + 1
                        /\ pc' = "awaiting"
                        /\ result' = result
                   ELSE /\ pc' = "aborted"
                        /\ result' = Apology
                        /\ UNCHANGED <<messages, calls>>

\* a pass that appends the assistant message before it dispatches: a raise
\* leaves the message in the conversation
ProcessToolCalls_AppendFirst(request) ==
    LET tool_message == [content |-> "", tool_calls |-> WithIds(request, calls)]
        handled      == handle_tool_call(tool_message.tool_calls, collaborator)
    IN  /\ received' = received + 1
        /\ toolRequests' = toolRequests + 1
        /\ lastToolCalls' = tool_message.tool_calls
        /\ requested' = requested + Len(tool_message.tool_calls)
        /\ dispatched' = dispatched \o handled.seen
        /\ executed' = executed \o handled.ran
        /\ notified' = notified \o handled.posted
        /\ culprit' = handled.culprit
        /\ finalContent' = finalContent
        /\ messages' = Append(messages, AssistantMessage(tool_message))
                          \o handled.results
        /\ IF handled.error # "none"
           THEN /\ pc' = "raised"
                /\ error' = handled.error
                /\ UNCHANGED <<calls, result>>
           ELSE /\ error' = error
                /\ IF calls < MaxIterations
                   THEN /\ calls' = calls + 1
                        /\ pc' = "awaiting"
                        /\ result' = result
                   ELSE /\ pc' = "aborted"
                        /\ result' = Apology
                        /\ calls' = calls

\* a pass of a loop that has no cap: every tool request leads to another call
ProcessToolCalls_NoCap(request) ==
    LET tool_message == [content |-> "", tool_calls |-> WithIds(request, calls)]
        handled      == handle_tool_call(tool_message.tool_calls, collaborator)
    IN  /\ received' = received + 1
        /\ toolRequests' = toolRequests + 1
        /\ lastToolCalls' = tool_message.tool_calls
        /\ requested' = requested + Len(tool_message.tool_calls)
        /\ dispatched' = dispatched \o handled.seen
        /\ executed' = executed \o handled.ran
        /\ notified' = notified \o handled.posted
        /\ culprit' = handled.culprit
        /\ finalContent' = finalContent
        /\ IF handled.error # "none"
           THEN /\ pc' = "raised"
                /\ error' = handled.error
                /\ UNCHANGED <<messages, calls, result>>
           ELSE /\ messages' = Append(messages, AssistantMessage(tool_message))
                                  \o handled.results
                /\ error' = error
                /\ calls' = calls + 1
                /\ pc' = "awaiting"
                /\ result' = result

\* finish_reason == "tool_calls": dispatch, append, and either the next pass
\* of the loop up to its chat completion call or the end of the loop
ProcessToolCalls(request) ==
    LET tool_message == [content |-> "", tool_calls |-> WithIds(request, calls)]
        handled      == handle_tool_call(tool_message.tool_calls, collaborator)
    IN  /\ received' = received + 1
        /\ toolRequests' = toolRequests + 1
        /\ lastToolCalls' = tool_message.tool_calls
        /\ requested' = requested + Len(tool_message.tool_calls)
        /\ dispatched' = dispatched \o handled.seen
        /\ executed' = executed \o handled.ran
        /\ notified' = notified \o handled.posted
        /\ culprit' = handled.culprit
        /\ finalContent' = finalContent
        /\ IF handled.error # "none"
           THEN /\ pc' = "raised"
                /\ error' = handled.error
                /\ UNCHANGED <<messages, calls, result>>
           ELSE /\ messages' = Append(messages, AssistantMessage(tool_message))
                                  \o handled.results
                /\ error' = error
                /\ IF calls < MaxIterations
                   THEN /\ calls' = calls + 1
                        /\ pc' = "awaiting"
                        /\ result' = result
                   ELSE /\ pc' = "aborted"
                        /\ result' = Apology
                        /\ calls' = calls

\* the scripted model makes its usual request
ModelRequestsTools ==
    /\ pc = "awaiting"
    /\ ProcessToolCalls(stub)
    /\ history' = CallerList(history, messages')
    /\ UNCHANGED <<collaborator, stub, deviated>>
    /\ UNCHANGED researchVars

\* the scripted model makes, once in a turn, another request, of one invocation
ModelDeviates ==
    /\ pc = "awaiting"
    /\ ~deviated
    /\ \E request \in SingleRequests \ {stub} : ProcessToolCalls(request)
    /\ history' = CallerList(history, messages')
    /\ deviated' = TRUE
    /\ UNCHANGED <<collaborator, stub>>
    /\ UNCHANGED researchVars

ChatNext ==
    \/ ChatStart
    \/ ModelFails
    \/ ModelAnswers
    \/ ModelRequestsTools
    \/ ModelDeviates

(***************************************************************************)
(* Properties of Me.chat, checked under SpecChat.                          *)
(***************************************************************************)
\* an assistant message that carries invocations
IsRequest(m) == m.role = "assistant" /\ m.tool_calls # << >>

RequestPositions == { p \in DOMAIN messages : IsRequest(messages[p]) }

ToolPositions == { p \in DOMAIN messages : messages[p].role = "tool" }

\* the conversation Me.chat starts a turn with
Opening == <<Msg("system", "prompt")>> \o history \o <<Msg("user", "message")>>

\* C1: the model is called at most 12 times in a turn, and when each of the
\* first 12 responses requests tools the turn returns the fixed apology with
\* no 13th call.
C1_AtMostTwelveCallsThenApology ==
    /\ calls <= MaxIterations
    /\ toolRequests = MaxIterations
          => (pc = "aborted" /\ result = Apology /\ calls = MaxIterations)

\* C2: every tool-result message answers an invocation of an earlier
\* assistant message that no earlier tool-result has answered: no orphaned
\* and no duplicate tool-result.
C2_NoOrphanNoDuplicate ==
    \A p \in DOMAIN messages :
        messages[p].role = "tool" =>
            /\ \E q \in 1..(p - 1) :
                  /\ IsRequest(messages[q])
                  /\ \E j \in DOMAIN messages[q].tool_calls :
                        messages[q].tool_calls[j].id = messages[p].tool_call_id
            /\ \A r \in 1..(p - 1) :
                  messages[r].role = "tool"
                      => messages[r].tool_call_id # messages[p].tool_call_id

\* a turn in which two responses, one of them with several invocations, have
\* been answered
C2_Witness ==
    /\ Cardinality(RequestPositions) >= 2
    /\ Cardinality(ToolPositions) >= 3

\* the assistant message at p is followed directly by one tool-result per
\* invocation, in the order of the invocations
AnsweredInOrder(p) ==
    LET tool_calls == messages[p].tool_calls
    IN  /\ p + Len(tool_calls) <= Len(messages)
        /\ \A j \in DOMAIN tool_calls :
              /\ messages[p + j].role = "tool"
              /\ messages[p + j].tool_call_id = tool_calls[j].id

\* the tool-result at p is one of those that follow an assistant message
InBlock(p) ==
    \E q \in RequestPositions : q < p /\ p <= q + Len(messages[q].tool_calls)

\* C3: for every tool-requesting response the turn appends the assistant
\* message and then exactly one tool-result per invocation directly after it,
\* the j-th answering the j-th invocation.
C3_EveryRequestAnsweredInOrder ==
    /\ Cardinality(RequestPositions) = toolRequests
    /\ \A p \in RequestPositions : AnsweredInOrder(p)
    /\ \A p \in ToolPositions : InBlock(p)

\* C4: when the first response is a final answer with text X, the turn
\* returns X after exactly one model call, dispatches no tool and appends no
\* message beyond the user's.
C4_ImmediateFinalAnswer ==
    (pc = "done" /\ received = 1 /\ finalContent # "None")
        => /\ result = finalContent
           /\ calls = 1
           /\ executed = << >>
           /\ messages = Opening

C4_Witness == pc = "done" /\ received = 1 /\ finalContent = "X" /\ history # << >>

\* the arguments parse, the name is a tool offered to the model, and the keys
\* miss a required one or hold an undeclared one
FailsValidation(inv) ==
    /\ inv.arguments.wellFormed
    /\ inv.name \in OPENAI_TOOLS
    /\ ~Binds(Signatures[inv.name], inv.arguments.keys)

\* the scripted model requests the same single tool, with arguments that fail
\* validation, in every response
AlwaysSameInvalidTool ==
    /\ Len(stub) = 1
    /\ FailsValidation(stub[1])
    /\ ~deviated
    /\ received >= 1
    /\ toolRequests = received

\* C5: when the model requests the same single tool in every response and
\* its arguments fail validation on every dispatch, the turn does not raise:
\* it makes exactly 12 model calls and ends ABORTED with the apology.
C5_InvalidArgumentsEndInAborted ==
    (AlwaysSameInvalidTool /\ pc \in Terminal)
        => (pc = "aborted" /\ error = "none" /\ calls = MaxIterations
            /\ result = Apology)

\* the contents handle_tool_call gives a tool-result that report no error
PlainContents == { JsonDumps(RecordedOk), JsonDumps(EmptyDict), JsonDumps(PyNone) }

IsErrorPayload(content) == content \notin PlainContents

\* the invocations of the conversation whose name satisfies Unknown(_)
UnknownCalls(Unknown(_)) ==
    { <<p, j>> \in RequestPositions \X (1..MaxInv + 1) :
         /\ j <= Len(messages[p].tool_calls)
         /\ Unknown(messages[p].tool_calls[j].name) }

NotRegistered(name) == name \notin OPENAI_TOOLS

NotCallable(name) == ~IsCallable(name)

\* C6 as stated: an invocation of a name that is no registered tool does not
\* abort the turn and is answered by a tool-result carrying an error payload.
C6_UnknownToolGetsErrorPayload ==
    /\ \A c \in UnknownCalls(NotRegistered) :
          /\ AnsweredInOrder(c[1])
          /\ IsErrorPayload(messages[c[1] + c[2]].content)
    /\ (pc = "raised" /\ culprit # NoCall /\ culprit.arguments.wellFormed)
          => ~NotRegistered(culprit.name)

\* C6 as amended: an invocation whose name is bound to no callable of the
\* module, with arguments that parse, never raises, and is answered by a
\* tool-result whose content is the serialized empty object.
C6_UnknownToolGetsEmptyObject ==
    /\ \A c \in UnknownCalls(NotCallable) :
          /\ AnsweredInOrder(c[1])
          /\ messages[c[1] + c[2]].content = "{}"
    /\ (pc = "raised" /\ culprit # NoCall /\ culprit.arguments.wellFormed)
          => ~NotCallable(culprit.name)

\* an unknown name was answered and the loop went on to another model call
C6_Witness ==
    /\ UnknownCalls(NotCallable) # {}
    /\ pc = "awaiting"
    /\ calls >= 2

\* the sequence a begins the sequence b
IsPrefix(a, b) == Len(a) <= Len(b) /\ \A k \in DOMAIN a : a[k] = b[k]

\* x is an element of the sequence s
InSeq(x, s) == \E k \in DOMAIN s : s[k] = x

\* the last tool request was dispatched to its end and appended
LastAnswered == lastToolCalls # << >> /\ culprit = NoCall

\* the position in messages of the tool-result of the j-th invocation of the
\* last tool request, once appended
LastResult(j) == Len(messages) - Len(lastToolCalls) + j

\* the arguments parse, the name is a tool offered to the model, and a
\* required key is missing
LacksRequired(inv) ==
    /\ inv.arguments.wellFormed
    /\ inv.name \in OPENAI_TOOLS
    /\ ~(Signatures[inv.name].required \subseteq inv.arguments.keys)

\* the arguments carry exactly the required and the optional keys of the tool
DeclaredPayload(inv) ==
    /\ inv.arguments.wellFormed
    /\ inv.name \in OPENAI_TOOLS
    /\ inv.arguments.keys
          = Signatures[inv.name].required \cup Signatures[inv.name].optional

\* C13: a dispatched invocation of record_user_details or
\* record_unknown_question whose payload misses the required key is rejected
\* with an argument error (Python's TypeError) and its tool does not run; one
\* whose payload carries exactly the required and optional keys is accepted,
\* runs, and is answered with the status object {"recorded": "ok"}.
C13_RequiredKeysEnforced ==
    \A j \in DOMAIN lastToolCalls :
        LET inv == lastToolCalls[j]
        IN  InSeq(inv.id, dispatched) =>
              /\ LacksRequired(inv) =>
                    /\ pc = "raised"
                    /\ culprit = inv
                    /\ error = "TypeError"
                    /\ ~InSeq(inv.id, executed)
              /\ DeclaredPayload(inv) =>
                    /\ culprit # inv
                    /\ InSeq(inv.id, executed)
                    /\ LastAnswered =>
                          messages[LastResult(j)].content = JsonDumps(RecordedOk)

\* in one response a full payload was accepted and then a payload of
\* record_unknown_question without its question was rejected
C13_Witness ==
    /\ pc = "raised"
    /\ error = "TypeError"
    /\ culprit.name = "record_unknown_question"
    /\ LacksRequired(culprit)
    /\ \E j \in DOMAIN lastToolCalls :
          /\ DeclaredPayload(lastToolCalls[j])
          /\ InSeq(lastToolCalls[j].id, executed)

\* C14: when the notification service is unavailable (credentials missing,
\* or the request fails) no notification is posted, nothing is raised by it,
\* the tools still return {"recorded": "ok"}, and the dispatch of a response
\* has the outcome it has with the service available.
C14_PushFailureIsSilent ==
    collaborator # "available" =>
        /\ notified = << >>
        /\ error # "RequestException"
        /\ LET here  == handle_tool_call(lastToolCalls, collaborator)
               there == handle_tool_call(lastToolCalls, "available")
           IN  /\ here.error = there.error
               /\ here.results = there.results
               /\ here.ran = there.ran
               /\ here.culprit = there.culprit
        /\ LastAnswered =>
              \A j \in DOMAIN lastToolCalls :
                  IsCallable(lastToolCalls[j].name) =>
                      /\ InSeq(lastToolCalls[j].id, executed)
                      /\ messages[LastResult(j)].content = JsonDumps(RecordedOk)

\* a turn whose notification requests all failed ran two tools and returned
C14_Witness ==
    /\ collaborator = "request_fails"
    /\ Len(executed) >= 2
    /\ LastAnswered
    /\ pc = "done"

\* C15: every invocation of every tool-requesting response the loop has
\* processed was dispatched exactly once: none skipped, none dispatched again.
C15_EveryInvocationDispatchedOnce ==
    /\ Len(dispatched) = requested
    /\ \A k, l \in DOMAIN dispatched : dispatched[k] = dispatched[l] => k = l

\* C20: in a turn that ends ABORTED the tools requested by the 12th response
\* were dispatched, those bound to a callable ran, and the assistant message
\* with one tool-result per invocation was appended, before the loop ended.
C20_AbortedTurnRanLastTools ==
    pc = "aborted" =>
        /\ toolRequests = MaxIterations
        /\ LastAnswered
        /\ LET p == Len(messages) - Len(lastToolCalls)
           IN  /\ p \in DOMAIN messages
               /\ IsRequest(messages[p])
               /\ messages[p].tool_calls = lastToolCalls
               /\ AnsweredInOrder(p)
        /\ \A j \in DOMAIN lastToolCalls :
              /\ lastToolCalls[j].id[1] = MaxIterations
              /\ InSeq(lastToolCalls[j].id, dispatched)
              /\ IsCallable(lastToolCalls[j].name)
                    => InSeq(lastToolCalls[j].id, executed)

\* an ABORTED turn whose 12th response carried two invocations that both ran
C20_Witness ==
    /\ pc = "aborted"
    /\ Len(lastToolCalls) >= 2
    /\ InSeq(lastToolCalls[2].id, executed)
    /\ InSeq(lastToolCalls[1].id, executed)

\* the dispatch of the last tool request raised
DispatchRaised == pc = "raised" /\ culprit # NoCall

\* the message at p belongs to the n-th response: it carries or answers an
\* invocation of it
OfResponse(p, n) ==
    \/ messages[p].tool_call_id[1] = n
    \/ \E j \in DOMAIN messages[p].tool_calls : messages[p].tool_calls[j].id[1] = n

\* C21: when the dispatch of the j-th invocation of a response raises, the
\* error leaves Me.chat with no return value, invocations 1..j-1 have been
\* dispatched and those bound to a callable have run, the j-th and the later
\* ones have not run, and the conversation holds neither the assistant
\* message nor a tool-result of that response.
C21_RaiseLeavesResponseUnappended ==
    DispatchRaised =>
        /\ error # "none"
        /\ result = "None"
        /\ \E j \in DOMAIN lastToolCalls :
              /\ culprit = lastToolCalls[j]
              /\ \A i \in DOMAIN lastToolCalls :
                    LET inv == lastToolCalls[i]
                    IN  /\ i < j => /\ InSeq(inv.id, dispatched)
                                    /\ IsCallable(inv.name) => InSeq(inv.id, executed)
                        /\ i >= j => ~InSeq(inv.id, executed)
                        /\ i > j => ~InSeq(inv.id, dispatched)
        /\ \A p \in DOMAIN messages : ~OfResponse(p, culprit.id[1])
        /\ messages[Len(messages)].role \in {"user", "tool"}

\* the second invocation of a later response raised after the first had run
C21_Witness ==
    /\ DispatchRaised
    /\ culprit.id[1] >= 2
    /\ culprit.id[2] = 2
    /\ InSeq(lastToolCalls[1].id, executed)

\* a step of a turn leaves the caller's list as it was passed, and changes
\* the turn's conversation only by appending to it
HistoryKept ==
    pc # "idle" =>
        /\ history' = history
        /\ IsPrefix(messages, messages')

\* C22: Me.chat never modifies the history passed by the caller: through
\* every step of a turn, to its end in DONE, in ABORTED or by a raised error,
\* the caller's list keeps its messages in their order, and it is the
\* conversation local to the turn that the messages are appended to.
C22_CallerHistoryUntouched ==
    /\ [][HistoryKept]_vars
    /\ [](pc # "idle" =>
            /\ Len(messages) >= Len(history) + 2
            /\ SubSeq(messages, 2, Len(history) + 1) = history)

\* a turn with a history that appended the messages of a response and then
\* ended by a raised error
C22_Witness ==
    /\ pc = "raised"
    /\ history # << >>
    /\ Len(messages) > Len(history) + 2

\* every pass of the loop either ends the turn or is followed by the next
\* model call, of which there are at most MaxIterations
LoopAdvances ==
    pc = "awaiting" =>
        \/ pc' \in Terminal
        \/ pc' = "awaiting" /\ calls' = calls + 1 /\ calls' <= MaxIterations

\* a turn that has ended DONE or ABORTED stays as it ended
EndedStaysEnded == pc \in {"done", "aborted"} => UNCHANGED chatVars

\* C16: in a turn in which no model call and no dispatch raises, the loop
\* advances by one model call per pass up to the cap, and the turn eventually
\* reaches DONE or ABORTED and stays there.
C16_TurnTerminates ==
    /\ [][LoopAdvances]_vars
    /\ [][EndedStaysEnded]_vars
    /\ [](pc # "raised") => <>[](pc \in {"done", "aborted"})

\* a turn that the model ended with a final answer at its last allowed call
C16_Witness ==
    /\ pc = "done"
    /\ calls = MaxIterations
    /\ toolRequests = MaxIterations - 1

(***************************************************************************)
(* ResearchManager                                                         *)
(***************************************************************************)
\* the most items a planner output carries
MaxItems == 5

\* HOW_MANY_SEARCHES = 5: the number the planner's instructions ask for
HOW_MANY_SEARCHES == 5

\* the markdown bodies a writer output carries
Markdowns == {"# report A", "# report B"}

NoReport == "no report"

TraceLink == "View trace: https://platform.openai.com/traces/trace?trace_id="

EvPlanned == "Searches planned, starting to search..."

EvSearched == "Searches complete, writing report..."

EvWritten == "Report written, sending email..."

EvSent == "Email sent, research complete"

\* a plan_searches that returns the configured number of items
plan_searches_Configured(output) == HOW_MANY_SEARCHES

\* ResearchManager.plan_searches: result.final_output_as(WebSearchPlan), the
\* planner's output as it is; WebSearchPlan.searches is a list of any length
plan_searches(output) == output

\* the value of a finished task: the summary of an item, or None
Summary(item) == [isNone |-> FALSE, item |-> item]

NoneResult == [isNone |-> TRUE, item |-> 0]

\* search without its try/except: the exception of Runner.run leaves the task
search_NoCatch(item, remote) ==
    IF remote = "returns"
    THEN [raised |-> FALSE, value |-> Summary(item)]
    ELSE [raised |-> TRUE, value |-> NoneResult]

\* ResearchManager.search: str(result.final_output) when Runner.run returns,
\* None when it raises an Exception; the coroutine itself never raises
search(item, remote) ==
    IF remote = "returns"
    THEN [raised |-> FALSE, value |-> Summary(item)]
    ELSE [raised |-> FALSE, value |-> NoneResult]

Created == [state |-> "created", raised |-> FALSE, value |-> NoneResult]

Running == [state |-> "running", raised |-> FALSE, value |-> NoneResult]

Finished(outcome) == [state |-> "done", raised |-> outcome.raised, value |-> outcome.value]

ResearchInit ==
    /\ rpc = "idle"
    /\ events = << >>
    /\ planned = 0
    /\ searches = 0
    /\ tasks = << >>
    /\ started = 0
    /\ doneq = << >>
    /\ results = << >>
    /\ num_completed = 0
    /\ remoteOk = {}
    /\ report = NoReport
    /\ failedStage = "none"

\* a run that prints the trace link and does not yield it
RunStart_Silent ==
    /\ rpc = "idle"
    /\ events' = events
    /\ rpc' = "y_trace"
    /\ UNCHANGED <<planned, searches, tasks, started, doneq, results, num_completed,
                   remoteOk, report, failedStage>>
    /\ UNCHANGED chatVars

\* run up to its first yield: the trace link
RunStart ==
    /\ rpc = "idle"
    /\ events' = Append(events, TraceLink)
    /\ rpc' = "y_trace"
    /\ UNCHANGED <<planned, searches, tasks, started, doneq, results, num_completed,
                   remoteOk, report, failedStage>>
    /\ UNCHANGED chatVars

\* the consumer resumes run: plan_searches up to Runner.run(planner_agent)
ResumeToPlan ==
    /\ rpc = "y_trace"
    /\ rpc' = "plan"
    /\ UNCHANGED <<events, planned, searches, tasks, started, doneq, results,
                   num_completed, remoteOk, report, failedStage>>
    /\ UNCHANGED chatVars

\* Runner.run(planner_agent) returns a WebSearchPlan; run yields
PlannerReturns ==
    /\ rpc = "plan"
    /\ \E n \in 0..MaxItems :
          /\ planned' = n
          /\ searches' = plan_searches(n)
    /\ events' = Append(events, EvPlanned)
    /\ rpc' = "y_planned"
    /\ UNCHANGED <<tasks, started, doneq, results, num_completed, remoteOk,
                   report, failedStage>>
    /\ UNCHANGED chatVars

\* Runner.run(planner_agent) raises, or its output is no WebSearchPlan
PlannerFails ==
    /\ rpc = "plan"
    /\ rpc' = "raised"
    /\ failedStage' = "plan"
    /\ UNCHANGED <<events, planned, searches, tasks, started, doneq, results,
                   num_completed, remoteOk, report>>
    /\ UNCHANGED chatVars

\* a yield inside the loop: one status per finished unit
AfterLoop_PerUnit(completed) ==
    /\ events' = (IF completed > 0 \/ searches = 0
                  THEN Append(events, EvSearched) ELSE events)
    /\ rpc' = (IF completed = searches THEN "y_searched" ELSE "search")

\* a loop that ends with the first finished unit
AfterLoop_First(completed) ==
    IF completed >= 1 \/ searches = 0
    THEN /\ events' = Append(events, EvSearched)
         /\ rpc' = "y_searched"
    ELSE /\ events' = events
         /\ rpc' = "search"

\* what perform_searches does once its loop over as_completed has ended:
\* it returns results, and run yields
AfterLoop(completed) ==
    IF completed = searches
    THEN /\ events' = Append(events, EvSearched)
         /\ rpc' = "y_searched"
    ELSE /\ events' = events
         /\ rpc' = "search"

\* the consumer resumes run: perform_searches creates one task per item and
\* waits on as_completed (with no item, the loop has nothing to wait for)
ResumeToSearch ==
    /\ rpc = "y_planned"
    /\ tasks' = [i \in 1..searches |-> Created]
    /\ num_completed' = 0
    /\ results' = << >>
    /\ AfterLoop(0)
    /\ UNCHANGED <<planned, searches, started, doneq, remoteOk, report, failedStage>>
    /\ UNCHANGED chatVars

\* the event loop runs the first step of the next task, in creation order:
\* search up to Runner.run(search_agent)
UnitStarts ==
    /\ started < Len(tasks)
    /\ started' = started + 1
    /\ tasks' = [tasks EXCEPT ![started + 1] = Running]
    /\ UNCHANGED <<rpc, events, planned, searches, doneq, results, num_completed,
                   remoteOk, report, failedStage>>
    /\ UNCHANGED chatVars

\* Runner.run(search_agent) of a running unit returns
UnitSucceeds ==
    /\ \E i \in DOMAIN tasks :
           /\ tasks[i].state = "running"
           /\ tasks' = [tasks EXCEPT ![i] = Finished(search(i, "returns"))]
           /\ doneq' = Append(doneq, i)
           /\ remoteOk' = remoteOk \cup {i}
           /\ UNCHANGED <<rpc, events, planned, searches, started, results, num_completed,
                          report, failedStage>>
    /\ UNCHANGED chatVars

\* Runner.run(search_agent) of a running unit raises
UnitFails ==
    /\ \E i \in DOMAIN tasks :
           /\ tasks[i].state = "running"
           /\ tasks' = [tasks EXCEPT ![i] = Finished(search(i, "raises"))]
           /\ doneq' = Append(doneq, i)
           /\ UNCHANGED <<rpc, events, planned, searches, started, results, num_completed,
                          remoteOk, report, failedStage>>
    /\ UNCHANGED chatVars

\* an append that does not test the result
Collected_Always(list, value) == Append(list, value)

\* if result is not None: results.append(result)
Collected(list, value) ==
    IF ~value.isNone THEN Append(list, value) ELSE list

\* a collection that does not wait behind the first steps of the tasks, as
\* when each unit is awaited where it is created
Collect_Eager ==
    /\ rpc = "search"
    /\ doneq # << >>
    /\ doneq' = Tail(doneq)
    /\ LET task == tasks[Head(doneq)]
       IN  IF task.raised
           THEN /\ rpc' = "raised"
                /\ failedStage' = "search"
                /\ UNCHANGED <<events, results, num_completed>>
           ELSE /\ results' = Collected(results, task.value)
                /\ num_completed' = num_completed + 1
                /\ AfterLoop(num_completed + 1)
                /\ failedStage' = failedStage
    /\ UNCHANGED <<planned, searches, tasks, started, remoteOk, report>>
    /\ UNCHANGED chatVars

\* a loop that leaves at the first None result and returns what it has
Collect_StopOnFailure ==
    /\ rpc = "search"
    /\ started = Len(tasks)
    /\ doneq # << >>
    /\ doneq' = Tail(doneq)
    /\ LET task == tasks[Head(doneq)]
       IN  IF task.raised
           THEN /\ rpc' = "raised"
                /\ failedStage' = "search"
                /\ UNCHANGED <<events, results, num_completed>>
           ELSE /\ results' = Collected(results, task.value)
                /\ num_completed' = num_completed + 1
                /\ IF task.value.isNone
                   THEN /\ events' = Append(events, EvSearched)
                        /\ rpc' = "y_searched"
                   ELSE AfterLoop(num_completed + 1)
                /\ failedStage' = failedStage
    /\ UNCHANGED <<planned, searches, tasks, started, remoteOk, report>>
    /\ UNCHANGED chatVars

\* one pass of the loop over as_completed: `await task` gives the value of the
\* next finished task, or raises what the task raised. The waiting coroutine
\* is woken behind the first steps of the tasks, which create_task queued.
Collect ==
    /\ rpc = "search"
    /\ started = Len(tasks)
    /\ doneq # << >>
    /\ doneq' = Tail(doneq)
    /\ LET task == tasks[Head(doneq)]
       IN  IF task.raised
           THEN /\ rpc' = "raised"
                /\ failedStage' = "search"
                /\ UNCHANGED <<events, results, num_completed>>
           ELSE /\ results' = Collected(results, task.value)
                /\ num_completed' = num_completed + 1
                /\ AfterLoop(num_completed + 1)
                /\ failedStage' = failedStage
    /\ UNCHANGED <<planned, searches, tasks, started, remoteOk, report>>
    /\ UNCHANGED chatVars

\* a run that refuses to write a report from an empty result list
ResumeToWrite_NeedsResults ==
    /\ rpc = "y_searched"
    /\ results # << >>
    /\ rpc' = "write"
    /\ UNCHANGED <<events, planned, searches, tasks, started, doneq, results,
                   num_completed, remoteOk, report, failedStage>>
    /\ UNCHANGED chatVars

\* the consumer resumes run: write_report up to Runner.run(writer_agent)
ResumeToWrite ==
    /\ rpc = "y_searched"
    /\ rpc' = "write"
    /\ UNCHANGED <<events, planned, searches, tasks, started, doneq, results,
                   num_completed, remoteOk, report, failedStage>>
    /\ UNCHANGED chatVars

\* Runner.run(writer_agent) returns a ReportData; run yields
WriterReturns ==
    /\ rpc = "write"
    /\ \E md \in Markdowns : report' = md
    /\ events' = Append(events, EvWritten)
    /\ rpc' = "y_written"
    /\ UNCHANGED <<planned, searches, tasks, started, doneq, results, num_completed,
                   remoteOk, failedStage>>
    /\ UNCHANGED chatVars

\* write_report swallowing the failure and going on without a report
WriterFails_Swallowed ==
    /\ rpc = "write"
    /\ rpc' = "y_written"
    /\ failedStage' = "write"
    /\ events' = Append(events, EvWritten)
    /\ UNCHANGED <<planned, searches, tasks, started, doneq, results, num_completed,
                   remoteOk, report>>
    /\ UNCHANGED chatVars

\* Runner.run(writer_agent) raises, or its output is no ReportData
WriterFails ==
    /\ rpc = "write"
    /\ rpc' = "raised"
    /\ failedStage' = "write"
    /\ UNCHANGED <<events, planned, searches, tasks, started, doneq, results,
                   num_completed, remoteOk, report>>
    /\ UNCHANGED chatVars

\* the consumer resumes run: send_email up to Runner.run(email_agent)
ResumeToEmail ==
    /\ rpc = "y_written"
    /\ rpc' = "email"
    /\ UNCHANGED <<events, planned, searches, tasks, started, doneq, results,
                   num_completed, remoteOk, report, failedStage>>
    /\ UNCHANGED chatVars

\* Runner.run(email_agent) returns; run yields
EmailReturns ==
    /\ rpc = "email"
    /\ events' = Append(events, EvSent)
    /\ rpc' = "y_sent"
    /\ UNCHANGED <<planned, searches, tasks, started, doneq, results, num_completed,
                   remoteOk, report, failedStage>>
    /\ UNCHANGED chatVars

\* Runner.run(email_agent) raises
EmailFails ==
    /\ rpc = "email"
    /\ rpc' = "raised"
    /\ failedStage' = "email"
    /\ UNCHANGED <<events, planned, searches, tasks, started, doneq, results,
                   num_completed, remoteOk, report>>
    /\ UNCHANGED chatVars

\* the consumer resumes run: yield report.markdown_report
ResumeToReport ==
    /\ rpc = "y_sent"
    /\ events' = Append(events, report)
    /\ rpc' = "y_report"
    /\ UNCHANGED <<planned, searches, tasks, started, doneq, results, num_completed,
                   remoteOk, report, failedStage>>
    /\ UNCHANGED chatVars

\* the consumer resumes run: the generator ends
ResumeToEnd ==
    /\ rpc = "y_report"
    /\ rpc' = "finished"
    /\ UNCHANGED <<events, planned, searches, tasks, started, doneq, results,
                   num_completed, remoteOk, report, failedStage>>
    /\ UNCHANGED chatVars

ResearchNext ==
    \/ RunStart
    \/ ResumeToPlan
    \/ PlannerReturns
    \/ PlannerFails
    \/ ResumeToSearch
    \/ UnitStarts
    \/ UnitSucceeds
    \/ UnitFails
    \/ Collect
    \/ ResumeToWrite
    \/ WriterReturns
    \/ WriterFails
    \/ ResumeToEmail
    \/ EmailReturns
    \/ EmailFails
    \/ ResumeToReport
    \/ ResumeToEnd

(***************************************************************************)
(* Properties of ResearchManager, checked under SpecResearch.              *)
(***************************************************************************)
\* perform_searches has returned its list to run
SearchesReturned ==
    \/ rpc \in {"y_searched", "write", "y_written", "email", "y_sent", "y_report",
                "finished"}
    \/ rpc = "raised" /\ failedStage \in {"write", "email"}

ItemsOf(list) == { list[k].item : k \in DOMAIN list }

\* C7: whatever units fail and in whatever order the units complete,
\* perform_searches raises nothing and returns a list with exactly one entry
\* per successful unit (none when all fail, N-1 when one fails).
C7_OneEntryPerSuccessfulUnit ==
    /\ failedStage # "search"
    /\ SearchesReturned =>
          /\ Len(results) = Cardinality(remoteOk)
          /\ ItemsOf(results) = remoteOk
          /\ \A k \in DOMAIN results : ~results[k].isNone
          /\ Len(results) = searches - Cardinality((1..searches) \ remoteOk)

\* a plan of several items returned with exactly one unit failed, the failed
\* unit not the last to complete
C7_Witness ==
    /\ rpc = "y_searched"
    /\ searches >= 2
    /\ Cardinality(remoteOk) = searches - 1
    /\ Len(results) = searches - 1
    /\ results[Len(results)].item < results[1].item

\* the events of a run in which no stage fails
StageEvents == <<EvPlanned, EvSearched, EvWritten, EvSent, report>>

\* the events of run after the trace link
Progress == IF events = << >> THEN << >> ELSE Tail(events)

\* C8: in a run where no stage fails, the events for plan, search, write and
\* send and the final report event are emitted in that order, once each,
\* whatever the interleaving of the search units.
C8_StageOrderOnceEach ==
    failedStage = "none" =>
        /\ IsPrefix(Progress, StageEvents)
        /\ rpc \in {"y_report", "finished"} => Progress = StageEvents

\* a finished run whose units completed in another order than they started
C8_Witness ==
    /\ rpc = "finished"
    /\ Len(results) >= 2
    /\ results[1].item > results[2].item

\* the events of the stages that complete before the given stage
EventsBefore(stage) ==
    IF stage = "plan" THEN <<TraceLink>>
    ELSE IF stage = "write" THEN <<TraceLink, EvPlanned, EvSearched>>
    ELSE <<TraceLink, EvPlanned, EvSearched, EvWritten>>

\* C9: when the planner, the writer or the email dispatch fails, the error
\* leaves run, and the events emitted are exactly those of the stages that
\* completed before: no later stage event and no final report event.
C9_FailureKeepsEarlierEventsOnly ==
    /\ failedStage # "none" =>
          /\ failedStage \in {"plan", "write", "email"}
          /\ rpc = "raised"
          /\ events = EventsBefore(failedStage)
    /\ rpc = "raised" => failedStage # "none" /\ ~ENABLED ResearchNext

C9_Witness == rpc = "raised" /\ failedStage = "email" /\ searches >= 2

\* the remote calls that have been issued and have not returned
Outstanding ==
    Cardinality({ i \in DOMAIN tasks : tasks[i].state = "running" })
    + (IF rpc \in {"plan", "write", "email"} THEN 1 ELSE 0)

\* C10: stages never overlap: no unit exists before the planner has
\* returned, the writer is called only after every unit of the plan has
\* completed or failed, the email dispatch only after the writer has
\* returned, and several calls are outstanding only in the executor stage.
C10_StagesDoNotOverlap ==
    /\ rpc \in {"idle", "y_trace", "plan", "y_planned"} => tasks = << >>
    /\ rpc # "search" => \A i \in DOMAIN tasks : tasks[i].state = "done"
    /\ rpc \in {"write", "y_written", "email"} =>
          /\ Len(tasks) = searches
          /\ num_completed = searches
          /\ doneq = << >>
    /\ rpc = "email" => report \in Markdowns
    /\ rpc = "write" => report = NoReport
    /\ Outstanding > 1 => rpc = "search"

\* the writer call is outstanding after a stage in which several unit calls
\* were outstanding at once
C10_Witness ==
    /\ rpc = "write"
    /\ searches >= 2
    /\ Len(results) >= 1
    /\ Cardinality(remoteOk) < searches

\* the planner call has returned a plan to run
PlanReturned == rpc \notin {"idle", "y_trace", "plan"} /\ failedStage # "plan"

\* perform_searches has created its tasks
TasksCreated == PlanReturned /\ rpc # "y_planned"

AllUnitsFailed ==
    /\ searches >= 1
    /\ Len(tasks) = searches
    /\ \A i \in DOMAIN tasks : tasks[i].state = "done"
    /\ remoteOk = {}

\* C12: when every unit of a plan fails, no failure reaches run: it goes on
\* to the writer with the empty result list, then to the email dispatch, and
\* emits the events of a run whose searches succeeded.
C12_AllFailedRunsOn ==
    AllUnitsFailed =>
        /\ failedStage # "search"
        /\ SearchesReturned => results = << >>
        /\ rpc = "y_searched" => ENABLED ResumeToWrite
        /\ rpc = "y_written" => ENABLED ResumeToEmail
        /\ failedStage = "none" =>
              /\ IsPrefix(Progress, StageEvents)
              /\ rpc \in {"y_report", "finished"} => Progress = StageEvents

\* a run of several units, all failed, that ended with its report
C12_Witness ==
    /\ AllUnitsFailed
    /\ searches >= 2
    /\ rpc = "finished"
    /\ events[Len(events)] \in Markdowns

(***************************************************************************)
(* Specifications: one chat turn; one run of the research pipeline.        *)
(***************************************************************************)
\* the units of the plan in a state
UnitsIn(state) == { i \in DOMAIN tasks : tasks[i].state = state }

\* perform_searches is in its loop over as_completed
InLoop == rpc = "search"

\* C17: perform_searches creates one unit per item of the plan before it
\* waits for any result, no result is collected while a unit of the plan has
\* not been started, and a unit's start never waits for another unit to
\* finish: nothing limits the number of units outstanding at once.
C17_AllLaunchedBeforeCollecting ==
    /\ TasksCreated => Len(tasks) = searches
    /\ (num_completed > 0 \/ results # << >>) =>
          /\ started = searches
          /\ UnitsIn("created") = {}
    /\ (InLoop /\ started < Len(tasks)) => ENABLED UnitStarts

\* every unit of a plan of several items is outstanding at once, none collected
C17_Witness ==
    /\ InLoop
    /\ searches >= 3
    /\ UnitsIn("running") = 1..searches
    /\ num_completed = 0

\* a unit that has been started stays running until it is done, and a unit
\* that is done stays done: no step cancels or restarts a unit
NoUnitCancelled ==
    \A i \in DOMAIN tasks :
        /\ i \in DOMAIN tasks'
        /\ tasks[i].state = "running" => tasks'[i].state \in {"running", "done"}
        /\ tasks[i].state = "done" => tasks'[i] = tasks[i]

\* C18: no unit is cancelled; perform_searches has returned only when each
\* of the N units is done, having completed or failed; when every unit
\* eventually completes or fails it eventually returns; and a unit's failure
\* leaves the other units running.
C18_AllUnitsRunToTheEnd ==
    /\ [][NoUnitCancelled]_vars
    /\ [](SearchesReturned =>
            /\ Len(tasks) = searches
            /\ UnitsIn("done") = 1..searches
            /\ doneq = << >>)
    /\ InLoop ~> (rpc = "y_searched")

\* perform_searches has returned from a plan of several items of which one
\* unit failed and every other unit, a later one among them, succeeded
C18_Witness ==
    /\ rpc = "y_searched"
    /\ searches >= 3
    /\ Cardinality(remoteOk) = searches - 1
    /\ \E i \in 1..searches : i \notin remoteOk /\ i + 1 \in remoteOk

\* the units whose result the loop has taken
Taken == UnitsIn("done") \ { doneq[k] : k \in DOMAIN doneq }

\* C19: num_completed counts every unit whose result the loop has taken,
\* failed or successful, results holds an entry only for the successful ones
\* among them, len(results) <= num_completed <= N in every state, and
\* num_completed = N when perform_searches has returned.
C19_CounterAndResults ==
    /\ Len(results) <= num_completed
    /\ num_completed <= searches
    /\ failedStage # "search" =>
          /\ num_completed = Cardinality(Taken)
          /\ Len(results) = Cardinality(Taken \cap remoteOk)
          /\ ItemsOf(results) = Taken \cap remoteOk
    /\ SearchesReturned => num_completed = searches

\* in the loop, with a failed and a successful unit taken and a unit to come
C19_Witness ==
    /\ InLoop
    /\ num_completed >= 2
    /\ results # << >>
    /\ Len(results) < num_completed
    /\ num_completed < searches

\* the planner has not been called
PlannerNotCalled == rpc \in {"idle", "y_trace"}

\* the email dispatch has returned
EmailReturned == rpc \in {"y_sent", "y_report", "finished"}

\* C23: a run in which no stage fails yields exactly six events: the trace
\* link, yielded before the planner is called, then the four stage statuses,
\* then the markdown of the report, which is the last event and is yielded
\* only after the email dispatch has returned.
C23_SixEventsReportLast ==
    failedStage = "none" =>
        /\ rpc \in {"y_report", "finished"} =>
              /\ Len(events) = 6
              /\ events = <<TraceLink, EvPlanned, EvSearched, EvWritten, EvSent, report>>
              /\ report \in Markdowns
        /\ rpc # "idle" => events # << >> /\ events[1] = TraceLink
        /\ PlannerNotCalled => Len(events) <= 1
        /\ \A k \in DOMAIN events :
              /\ events[k] = TraceLink => k = 1
              /\ events[k] \in Markdowns =>
                    /\ k = 6
                    /\ EmailReturned
                    /\ events[k - 1] = EvSent

\* a finished run of a plan of several items that has yielded its six events
C23_Witness ==
    /\ rpc = "finished"
    /\ failedStage = "none"
    /\ searches >= 2
    /\ Len(events) = 6
    /\ events[6] \in Markdowns

Init == ChatInit /\ ResearchInit

SpecChat == Init /\ [][ChatNext]_vars

\* a turn in progress goes on: Me.chat is sequential code, and a model call
\* or a dispatch either returns or raises
SpecChatFair == Init /\ [][ChatNext]_vars /\ WF_vars(ChatNext)

SpecResearch == Init /\ [][ResearchNext]_vars

\* the event loop runs every task that is ready, and every call to the search
\* agent returns or raises
SpecResearchFair ==
    /\ Init
    /\ [][ResearchNext]_vars
    /\ WF_vars(UnitStarts)
    /\ WF_vars(UnitSucceeds \/ UnitFails)
    /\ WF_vars(Collect)

=============================================================================
